---- MODULE Spec2Model ----
(***************************************************************************)
(* Model of the watch-progress store of empath-fullstack:                  *)
(* backend/src/services/storage.service.ts (class StorageService) and the  *)
(* routes of backend/src/index.ts that call it.                            *)
(*                                                                         *)
(* Strings are sequences of one-character strings, so that the template    *)
(* `${userId}-${videoId}` and key.split('-') are computed, not assumed.    *)
(* A JavaScript Map is a sequence of <<key, value>> entries in insertion   *)
(* order.  A file is absent, unreadable, or holds a JSON document.         *)
(***************************************************************************)
EXTENDS Integers, Sequences, FiniteSets

VARIABLES
    queue,          \* this.queue    : Map<string, QueueItem[]>
    progress,       \* this.progress : Map<string, ProgressRecord>
    queueFile,      \* data/queue.json
    progressFile,   \* data/progress.json
    now,            \* the wall clock read by Date.now() / new Date()
    ret,            \* the last call: method, arguments, returned value, state before it
    merges,         \* processCronJob calls of this store object since its last
                    \* addToQueue: 0, 1, or 2 for more
    direct,         \* number of calls made to the store's methods that no route calls
    faults,         \* number of I/O faults since both files were last written in full
    mounted,        \* App.tsx: the App component is mounted
    video,          \* App.tsx: the video state is not null
    loading,        \* App.tsx: the loading state
    isPlaying,      \* App.tsx: the isPlaying state
    intervalRef,    \* App.tsx: intervalRef.current, 0 for undefined
    timers,         \* the ids of the intervals the window holds active
    nextTimer,      \* the last id that setInterval handed out
    outbox,         \* the requests the page has sent that are not answered yet
    event           \* the last of the play, pause, ended and unmount events

store == <<queue, progress, queueFile, progressFile, now, ret, merges, direct, faults>>

page == <<mounted, video, loading, isPlaying, intervalRef, timers, nextTimer,
          outbox, event>>

vars == <<store, page>>

----------------------------------------------------------------------------
(* Bounds of the exploration *)

MaxQueued == 2      \* pending samples held in the queue at one time
MaxTime   == 1      \* largest clock reading
MaxDirect == 1      \* calls of methods that no route calls, per behaviour
MaxFaults == 1      \* failed writes and damaged files between two complete saves
MaxTimers == 3      \* intervals that setInterval creates in one behaviour
MaxOutbox == 2      \* requests of the page that wait for their response

----------------------------------------------------------------------------
(* Input domains *)

Dash == "-"

\* (userId, videoId) pairs: "a"/"b", "a"/"b-b" and "a-b"/"b"
Pairs == { << <<"a">>, <<"b">> >>,
           << <<"a">>, <<"b", Dash, "b">> >>,
           << <<"a", Dash, "b">>, <<"b">> >> }
SampleValues == {3, 5, 12}

\* a body with a negative progressSeconds
InvalidInputs ==
    {[userId |-> <<"a">>, videoId |-> <<"b">>, progressSeconds |-> -1]}

\* Math.random().toString(36).substring(2, 9): the store never reads a
\* sample's id, so one suffix stands for them all
RandomSuffixes == {"k3x9q2a"}

----------------------------------------------------------------------------
(* Strings *)

\* `${userId}-${videoId}`
KeyOf(userId, videoId) == userId \o <<Dash>> \o videoId

\* String.prototype.split('-')
RECURSIVE Split(_)
Split(s) ==
    IF \A i \in 1..Len(s) : s[i] # Dash
    THEN <<s>>
    ELSE LET i == CHOOSE k \in 1..Len(s) :
                      s[k] = Dash /\ \A j \in 1..(k - 1) : s[j] # Dash
         IN  <<SubSeq(s, 1, i - 1)>> \o Split(SubSeq(s, i + 1, Len(s)))

----------------------------------------------------------------------------
(* JavaScript Map, as a sequence of <<key, value>> entries *)

MapHas(m, k) == \E i \in 1..Len(m) : m[i][1] = k

MapIndex(m, k) == CHOOSE i \in 1..Len(m) : m[i][1] = k

\* m.get(k) for a key that is present
MapGet(m, k) == m[MapIndex(m, k)][2]

\* m.set(k, v): an existing key keeps its position
MapSet(m, k, v) ==
    IF MapHas(m, k)
    THEN [m EXCEPT ![MapIndex(m, k)] = <<k, v>>]
    ELSE Append(m, <<k, v>>)

\* m.delete(k)
MapDelete(m, k) ==
    IF MapHas(m, k)
    THEN LET i == MapIndex(m, k)
         IN  SubSeq(m, 1, i - 1) \o SubSeq(m, i + 1, Len(m))
    ELSE m

\* new Map(entries) and Object.fromEntries(entries): later entries win
RECURSIVE FromEntries(_, _)
FromEntries(acc, entries) ==
    IF entries = <<>> THEN acc
    ELSE FromEntries(MapSet(acc, Head(entries)[1], Head(entries)[2]), Tail(entries))

NULL == [null |-> TRUE]

----------------------------------------------------------------------------
(* Files *)

Absent  == [kind |-> "absent"]
Corrupt == [kind |-> "corrupt"]

\* JSON.stringify(Object.fromEntries(map), null, 2)
Stringify(map) == [kind |-> "json", members |-> FromEntries(<<>>, map)]

\* new Map(Object.entries(JSON.parse(text)))
ParseMap(file) == FromEntries(<<>>, file.members)

\* existsSync, readFileSync and JSON.parse of one file, then
\* new Map(Object.entries(parsed)); an unreadable file makes one of them throw
ReadMap(file, empty) ==
    IF file = Absent THEN [threw |-> FALSE, map |-> empty]
    ELSE IF file = Corrupt THEN [threw |-> TRUE, map |-> empty]
    ELSE [threw |-> FALSE, map |-> ParseMap(file)]

\* loadFromDisk with one try block for each file: a file that cannot be read
\* resets its own map only
LoadFromDiskPerFile(qf, pf) ==
    LET q == ReadMap(qf, <<>>)
        p == ReadMap(pf, <<>>)
    IN  [queue |-> q.map, progress |-> p.map,
         error |-> IF q.threw \/ p.threw THEN "logged" ELSE "none"]

\* loadFromDisk whose catch block resets this.progress only
LoadFromDiskKeepsQueue(qf, pf) ==
    LET q == ReadMap(qf, <<>>)
        p == IF q.threw THEN q ELSE ReadMap(pf, <<>>)
    IN  IF q.threw \/ p.threw
        THEN [queue |-> q.map, progress |-> <<>>, error |-> "logged"]
        ELSE [queue |-> q.map, progress |-> p.map, error |-> "none"]

\* loadFromDisk, started from the freshly constructed empty maps: the queue
\* file is read first; whatever throws inside the try block is caught and
\* both maps are replaced by empty ones
LoadFromDisk(qf, pf) ==
    LET q == ReadMap(qf, <<>>)
        p == IF q.threw THEN q ELSE ReadMap(pf, <<>>)
    IN  IF q.threw \/ p.threw
        THEN [queue |-> <<>>, progress |-> <<>>, error |-> "logged"]
        ELSE [queue |-> q.map, progress |-> p.map, error |-> "none"]

\* how a saveToDisk call ends: both writeFileSync calls complete; the first
\* or the second throws before it touched its file (the file cannot be
\* opened); the first or the second throws after it opened, hence truncated,
\* its file (disk full, file size limit), which leaves the file cut off
SaveOutcomes ==
    {"ok", "queueWriteFails", "progressWriteFails",
     "queueWriteDamages", "progressWriteDamages"}

\* saveToDisk that writes queue.json only
SaveToDiskQueueOnly(disk, snap, outcome) ==
    CASE outcome = "queueWriteFails" -> disk
      [] outcome = "queueWriteDamages" ->
            [queueFile |-> Corrupt, progressFile |-> disk.progressFile]
      [] OTHER ->
            [queueFile    |-> Stringify(snap.queue),
             progressFile |-> disk.progressFile]

\* saveToDisk: two writeFileSync calls in one try block; the catch only logs
SaveToDisk(disk, snap, outcome) ==
    CASE outcome = "ok" ->
            [queueFile    |-> Stringify(snap.queue),
             progressFile |-> Stringify(snap.progress)]
      [] outcome = "queueWriteFails" -> disk
      [] outcome = "progressWriteFails" ->
            [queueFile    |-> Stringify(snap.queue),
             progressFile |-> disk.progressFile]
      [] outcome = "queueWriteDamages" ->
            [queueFile |-> Corrupt, progressFile |-> disk.progressFile]
      [] outcome = "progressWriteDamages" ->
            [queueFile    |-> Stringify(snap.queue),
             progressFile |-> Corrupt]

RECURSIVE ApplySaves(_, _, _)
ApplySaves(disk, saves, plan) ==
    IF saves = <<>> THEN disk
    ELSE ApplySaves(SaveToDisk(disk, Head(saves), Head(plan)),
                    Tail(saves), Tail(plan))

Snapshot(q, p) == [queue |-> q, progress |-> p]

----------------------------------------------------------------------------
(* StorageService methods, as functions of the maps.  Each returns the new *)
(* maps, the returned value, and the snapshots saveToDisk was called with. *)

\* addToQueue that starts a new bucket on every call
AddToQueueReplaces(q, p, item, t, r) ==
    LET queueItem == [userId          |-> item.userId,
                      videoId         |-> item.videoId,
                      progressSeconds |-> item.progressSeconds,
                      id              |-> <<t, r>>,
                      createdAt       |-> t]
        q2 == MapSet(q, KeyOf(item.userId, item.videoId), <<queueItem>>)
    IN  [queue |-> q2, progress |-> p, value |-> queueItem,
         saves |-> <<Snapshot(q2, p)>>]

AddToQueue(q, p, item, t, r) ==
    LET queueItem == [userId          |-> item.userId,
                      videoId         |-> item.videoId,
                      progressSeconds |-> item.progressSeconds,
                      id              |-> <<t, r>>,
                      createdAt       |-> t]
        key      == KeyOf(item.userId, item.videoId)
        existing == IF MapHas(q, key) THEN MapGet(q, key) ELSE <<>>
        q2       == MapSet(q, key, Append(existing, queueItem))
    IN  [queue |-> q2, progress |-> p, value |-> queueItem,
         saves |-> <<Snapshot(q2, p)>>]

GetQueueItems(q, userId, videoId) ==
    LET key == KeyOf(userId, videoId)
    IN  IF MapHas(q, key) THEN MapGet(q, key) ELSE <<>>

ClearQueue(q, p) ==
    [queue |-> <<>>, progress |-> p, value |-> NULL,
     saves |-> <<Snapshot(<<>>, p)>>]

ClearQueueForKey(q, p, userId, videoId) ==
    LET q2 == MapDelete(q, KeyOf(userId, videoId))
    IN  [queue |-> q2, progress |-> p, value |-> NULL,
         saves |-> <<Snapshot(q2, p)>>]

\* getProgress that, without a committed record, answers from the pending
\* samples of the key
GetProgressPending(p, userId, videoId) ==
    LET key == KeyOf(userId, videoId)
    IN  IF MapHas(p, key) THEN MapGet(p, key)
        ELSE IF MapHas(queue, key)
             THEN [userId          |-> userId,
                   videoId         |-> videoId,
                   furthestSeconds |-> MapGet(queue, key)[1].progressSeconds,
                   updatedAt       |-> now]
             ELSE NULL

GetProgress(p, userId, videoId) ==
    LET key == KeyOf(userId, videoId)
    IN  IF MapHas(p, key) THEN MapGet(p, key) ELSE NULL

SetProgress(q, p, userId, videoId, furthestSeconds, t) ==
    LET key == KeyOf(userId, videoId)
        progressRecord == [userId          |-> userId,
                           videoId         |-> videoId,
                           furthestSeconds |-> furthestSeconds,
                           updatedAt       |-> t]
        p2 == MapSet(p, key, progressRecord)
    IN  [queue |-> q, progress |-> p2, value |-> progressRecord,
         saves |-> <<Snapshot(q, p2)>>]

UpdateProgressIfHigher(q, p, userId, videoId, seconds, t) ==
    LET key == KeyOf(userId, videoId)
    IN  IF ~MapHas(p, key) \/ seconds > MapGet(p, key).furthestSeconds
        THEN [SetProgress(q, p, userId, videoId, seconds, t) EXCEPT !.value = TRUE]
        ELSE [queue |-> q, progress |-> p, value |-> FALSE, saves |-> <<>>]

\* the newest sample of the bucket instead of the largest
MaxProgressLatest(items) == items[Len(items)].progressSeconds

\* the sum of the bucket's samples instead of the largest
RECURSIVE MaxProgressSums(_)
MaxProgressSums(items) ==
    IF Len(items) = 1 THEN items[1].progressSeconds
    ELSE items[1].progressSeconds + MaxProgressSums(Tail(items))

\* Math.max(...items.map(item => item.progressSeconds)), items non-empty
RECURSIVE MaxProgress(_)
MaxProgress(items) ==
    IF Len(items) = 1 THEN items[1].progressSeconds
    ELSE LET rest == MaxProgress(Tail(items))
         IN  IF items[1].progressSeconds > rest
             THEN items[1].progressSeconds ELSE rest

\* the for-of loop of processCronJob, from entry i of the queue on
RECURSIVE CronLoop(_, _, _, _, _, _)
CronLoop(q, i, p, updated, saves, t) ==
    IF i > Len(q)
    THEN [progress |-> p, updated |-> updated, saves |-> saves]
    ELSE LET key   == q[i][1]
             items == q[i][2]
         IN  IF Len(items) = 0
             THEN CronLoop(q, i + 1, p, updated, saves, t)
             ELSE LET maxProgress == MaxProgress(items)
                      parts       == Split(key)
                      u == UpdateProgressIfHigher(q, p, parts[1], parts[2],
                                                  maxProgress, t)
                  IN  CronLoop(q, i + 1, u.progress,
                               IF u.value THEN updated + 1 ELSE updated,
                               saves \o u.saves, t)

\* processCronJob without this.queue.clear()
ProcessCronJobNoClear(q, p, t) ==
    LET l == CronLoop(q, 1, p, 0, <<>>, t)
    IN  [queue |-> q, progress |-> l.progress,
         value |-> [updated |-> l.updated, processed |-> 0],
         saves |-> Append(l.saves, Snapshot(q, l.progress))]

\* processCronJob without this.queue.clear() that writes every bucket's
\* maximum with setProgress whenever it is not below the committed value
RECURSIVE CronLoopRewrites(_, _, _, _, _, _)
CronLoopRewrites(q, i, p, updated, saves, t) ==
    IF i > Len(q)
    THEN [progress |-> p, updated |-> updated, saves |-> saves]
    ELSE LET parts == Split(q[i][1])
             key   == KeyOf(parts[1], parts[2])
             m     == MaxProgress(q[i][2])
             u     == IF ~MapHas(p, key) \/ m >= MapGet(p, key).furthestSeconds
                      THEN [SetProgress(q, p, parts[1], parts[2], m, t)
                                EXCEPT !.value = TRUE]
                      ELSE [queue |-> q, progress |-> p, value |-> FALSE,
                            saves |-> <<>>]
         IN  CronLoopRewrites(q, i + 1, u.progress,
                              IF u.value THEN updated + 1 ELSE updated,
                              saves \o u.saves, t)

ProcessCronJobRewrites(q, p, t) ==
    LET l == CronLoopRewrites(q, 1, p, 0, <<>>, t)
    IN  [queue |-> q, progress |-> l.progress,
         value |-> [updated |-> l.updated, processed |-> 0],
         saves |-> Append(l.saves, Snapshot(q, l.progress))]

\* processCronJob that clears and saves the queue before its loop
ProcessCronJobClearsFirst(q, p, t) ==
    LET l == CronLoop(q, 1, p, 0, <<>>, t)
    IN  [queue |-> <<>>, progress |-> l.progress,
         value |-> [updated |-> l.updated, processed |-> 0],
         saves |-> <<Snapshot(<<>>, p)>>
                      \o [i \in 1..Len(l.saves) |->
                              Snapshot(<<>>, l.saves[i].progress)]
                      \o <<Snapshot(<<>>, l.progress)>>]

ProcessCronJob(q, p, t) ==
    LET l == CronLoop(q, 1, p, 0, <<>>, t)
    IN  [queue |-> <<>>, progress |-> l.progress,
         value |-> [updated |-> l.updated, processed |-> 0],
         saves |-> Append(l.saves, Snapshot(<<>>, l.progress))]

RECURSIVE FlatLength(_)
FlatLength(m) == IF m = <<>> THEN 0 ELSE Len(Head(m)[2]) + FlatLength(Tail(m))

GetStats(q, p) ==
    [queueSize |-> Len(q), queueItems |-> FlatLength(q), progressRecords |-> Len(p)]

ResetStore(q, p) ==
    [queue |-> <<>>, progress |-> <<>>, value |-> NULL,
     saves |-> <<Snapshot(<<>>, <<>>)>>]

----------------------------------------------------------------------------------------------------------------------------------------------------------------------------------------------------
(* The state machine *)

Disk == [queueFile |-> queueFile, progressFile |-> progressFile]

\* the maps as a call finds them
Before == [queue |-> queue, progress |-> progress]

\* every saveToDisk call of an operation succeeds
AllOk(n) == [i \in 1..n |-> "ok"]

\* one of the n saveToDisk calls of an operation fails
OneFails(n) ==
    {pl \in [1..n -> SaveOutcomes] : Cardinality({i \in 1..n : pl[i] # "ok"}) = 1}

\* a method that writes: the maps change, the saveToDisk calls of the method
\* end as plan says, the method returns r.value
Commit(op, args, r, plan) ==
    LET n == Len(r.saves)
        d == ApplySaves(Disk, r.saves, plan)
    IN  /\ queue' = r.queue
        /\ progress' = r.progress
        /\ queueFile' = d.queueFile
        /\ progressFile' = d.progressFile
        /\ faults' = IF n = 0 THEN faults
                     ELSE IF plan[n] = "ok" THEN 0 ELSE faults + 1
        /\ ret' = [op |-> op, args |-> args, value |-> r.value, before |-> Before]
        /\ merges' = IF op = "addToQueue" THEN 0
                     ELSE IF op = "processCronJob"
                          THEN (IF merges = 0 THEN 1 ELSE 2)
                          ELSE merges
        /\ UNCHANGED now
        /\ UNCHANGED page

\* a method that only reads
Answer(op, args, value) ==
    /\ ret' = [op |-> op, args |-> args, value |-> value, before |-> NULL]
    /\ UNCHANGED <<queue, progress, queueFile, progressFile, now, merges, faults>>
    /\ UNCHANGED page

Init ==
    /\ queue = <<>>
    /\ progress = <<>>
    /\ queueFile = Absent
    /\ progressFile = Absent
    /\ now = 0
    /\ ret = [op |-> "constructor", args |-> Disk, value |-> [error |-> "none"],
              before |-> NULL]
    /\ merges = 0
    /\ direct = 0
    /\ faults = 0
    /\ mounted = TRUE
    /\ video = FALSE
    /\ loading = TRUE
    /\ isPlaying = FALSE
    /\ intervalRef = 0
    /\ timers = {}
    /\ nextTimer = 0
    /\ outbox = <<>>
    /\ event = "none"

\* the bodies the routes accept
SampleInputs ==
    {[userId |-> pr[1], videoId |-> pr[2], progressSeconds |-> s] :
        pr \in Pairs, s \in SampleValues}

\* body: t.Object({videoId: t.String(), userId: t.String(),
\*                 progressSeconds: t.Number({minimum: 0})})
BodySchema(body) == body.progressSeconds >= 0

\* POST /api/progress/queue with a body the schema refuses: the handler, hence
\* addToQueue, is not called
EnqueueRejected ==
    \E body \in SampleInputs \cup InvalidInputs :
        /\ ~BodySchema(body)
        /\ Answer("POST /api/progress/queue", body, [ok |-> FALSE])
        /\ UNCHANGED direct

\* POST /api/progress/queue
Enqueue ==
    \E body \in SampleInputs \cup InvalidInputs, r \in RandomSuffixes :
        LET res == AddToQueue(queue, progress, body, now, r)
        IN  /\ BodySchema(body)
            /\ FlatLength(queue) < MaxQueued
            /\ Commit("addToQueue", body, res, AllOk(Len(res.saves)))
            /\ UNCHANGED direct

\* POST /api/progress/run-cron
RunCron ==
    LET res == ProcessCronJob(queue, progress, now)
    IN  /\ Commit("processCronJob", NULL, res, AllOk(Len(res.saves)))
        /\ UNCHANGED direct

\* POST /api/reset
Reset ==
    LET res == ResetStore(queue, progress)
    IN  /\ Commit("reset", NULL, res, AllOk(Len(res.saves)))
        /\ UNCHANGED direct

\* the handler of GET /api/progress/furthest that throws when getProgress
\* returns null
FurthestOrThrow(p, query) ==
    LET rec == GetProgress(p, query.userId, query.videoId)
    IN  [record   |-> rec,
         response |-> IF rec = NULL THEN [thrown |-> "NotFoundError"]
                      ELSE [videoId         |-> query.videoId,
                            userId          |-> query.userId,
                            furthestSeconds |-> rec.furthestSeconds,
                            lastUpdated     |-> rec.updatedAt]]

\* the handler of GET /api/progress/furthest: what getProgress returned, and
\* the response built from it with progress?.furthestSeconds || 0 and
\* progress?.updatedAt || null (updatedAt is a non-empty string)
Furthest(p, query) ==
    LET rec == GetProgress(p, query.userId, query.videoId)
    IN  [record   |-> rec,
         response |-> [videoId         |-> query.videoId,
                       userId          |-> query.userId,
                       furthestSeconds |-> IF rec = NULL THEN 0
                                           ELSE rec.furthestSeconds,
                       lastUpdated     |-> IF rec = NULL THEN NULL
                                           ELSE rec.updatedAt]]

\* GET /api/progress/furthest calls getProgress
DoGetProgress ==
    \E pr \in Pairs :
        LET query == [userId |-> pr[1], videoId |-> pr[2]]
        IN  /\ Answer("getProgress", query, Furthest(progress, query))
            /\ UNCHANGED direct

\* GET /api/stats
DoGetStats ==
    /\ Answer("getStats", NULL, GetStats(queue, progress))
    /\ UNCHANGED direct

\* the process ends and a new StorageService is constructed
Restart ==
    LET l == LoadFromDisk(queueFile, progressFile)
    IN  /\ queue' = l.queue
        /\ progress' = l.progress
        /\ ret' = [op |-> "constructor", args |-> Disk, value |-> [error |-> l.error],
                   before |-> NULL]
        /\ merges' = 0
        /\ UNCHANGED <<queueFile, progressFile, now, direct, faults>>
        /\ UNCHANGED page

Tick ==
    /\ now < MaxTime
    /\ now' = now + 1
    /\ UNCHANGED <<queue, progress, queueFile, progressFile, ret, merges, direct, faults>>
    /\ UNCHANGED page

\* the store as the routes of index.ts drive it
Next ==
    \/ Enqueue
    \/ EnqueueRejected
    \/ RunCron
    \/ Reset
    \/ DoGetProgress
    \/ DoGetStats
    \/ Restart
    \/ Tick

Spec == Init /\ [][Next]_vars

----------------------------------------------------------------------------
(* I/O faults of the data directory *)

EnqueueWriteFails ==
    \E body \in SampleInputs, r \in RandomSuffixes :
        LET res == AddToQueue(queue, progress, body, now, r)
        IN  /\ FlatLength(queue) < MaxQueued
            /\ faults < MaxFaults
            /\ \E plan \in OneFails(Len(res.saves)) :
                  Commit("addToQueue", body, res, plan)
            /\ UNCHANGED direct

RunCronWriteFails ==
    LET res == ProcessCronJob(queue, progress, now)
    IN  /\ faults < MaxFaults
        /\ \E plan \in OneFails(Len(res.saves)) :
              Commit("processCronJob", NULL, res, plan)
        /\ UNCHANGED direct

ResetWriteFails ==
    LET res == ResetStore(queue, progress)
    IN  /\ faults < MaxFaults
        /\ \E plan \in OneFails(Len(res.saves)) :
              Commit("reset", NULL, res, plan)
        /\ UNCHANGED direct

\* a file of the data directory becomes unreadable or unparsable
DamageQueueFile ==
    /\ faults < MaxFaults
    /\ queueFile \notin {Absent, Corrupt}
    /\ queueFile' = Corrupt
    /\ faults' = faults + 1
    /\ UNCHANGED <<queue, progress, progressFile, now, ret, merges, direct>>
    /\ UNCHANGED page

DamageProgressFile ==
    /\ faults < MaxFaults
    /\ progressFile \notin {Absent, Corrupt}
    /\ progressFile' = Corrupt
    /\ faults' = faults + 1
    /\ UNCHANGED <<queue, progress, queueFile, now, ret, merges, direct>>
    /\ UNCHANGED page

NextFaults ==
    \/ Next
    \/ EnqueueWriteFails
    \/ RunCronWriteFails
    \/ ResetWriteFails
    \/ DamageQueueFile
    \/ DamageProgressFile

SpecFaults == Init /\ [][NextFaults]_vars

----------------------------------------------------------------------------
(* The public methods of StorageService that no route calls, driven        *)
(* together with the ones that write                                       *)

DoSetProgress ==
    \E pr \in Pairs, s \in SampleValues :
        LET res == SetProgress(queue, progress, pr[1], pr[2], s, now)
        IN  /\ direct < MaxDirect
            /\ Commit("setProgress",
                      [userId |-> pr[1], videoId |-> pr[2], furthestSeconds |-> s],
                      res, AllOk(Len(res.saves)))
            /\ direct' = direct + 1

DoUpdateProgressIfHigher ==
    \E pr \in Pairs, s \in SampleValues :
        LET res == UpdateProgressIfHigher(queue, progress, pr[1], pr[2], s, now)
        IN  /\ direct < MaxDirect
            /\ Commit("updateProgressIfHigher",
                      [userId |-> pr[1], videoId |-> pr[2], seconds |-> s],
                      res, AllOk(Len(res.saves)))
            /\ direct' = direct + 1

DoClearQueue ==
    LET res == ClearQueue(queue, progress)
    IN  /\ direct < MaxDirect
        /\ Commit("clearQueue", NULL, res, AllOk(Len(res.saves)))
        /\ direct' = direct + 1

DoClearQueueForKey ==
    \E pr \in Pairs :
        LET res == ClearQueueForKey(queue, progress, pr[1], pr[2])
        IN  /\ direct < MaxDirect
            /\ Commit("clearQueueForKey", [userId |-> pr[1], videoId |-> pr[2]],
                      res, AllOk(Len(res.saves)))
            /\ direct' = direct + 1

\* addToQueue called with an argument that did not pass the route's schema
DoAddToQueue ==
    \E body \in InvalidInputs, r \in RandomSuffixes :
        LET res == AddToQueue(queue, progress, body, now, r)
        IN  /\ direct < MaxDirect
            /\ FlatLength(queue) < MaxQueued
            /\ Commit("addToQueue", body, res, AllOk(Len(res.saves)))
            /\ direct' = direct + 1

DoGetQueueItems ==
    \E pr \in Pairs :
        /\ Answer("getQueueItems", [userId |-> pr[1], videoId |-> pr[2]],
                  GetQueueItems(queue, pr[1], pr[2]))
        /\ UNCHANGED direct

NextStore ==
    \/ Enqueue
    \/ RunCron
    \/ Reset
    \/ Tick
    \/ DoSetProgress
    \/ DoUpdateProgressIfHigher
    \/ DoClearQueue
    \/ DoClearQueueForKey
    \/ DoAddToQueue
    \/ DoGetQueueItems

SpecStore == Init /\ [][NextStore]_vars

----------------------------------------------------------------------------
(* The process stops inside processCronJob                                 *)

\* how the saveToDisk calls end that the process reaches when it stops
\* after k complete writeFileSync calls (two per saveToDisk, the queue file
\* first): between two calls, or inside the next call, which has opened and
\* truncated its file
CrashPlan(k, inside) ==
    [i \in 1..(IF inside THEN k \div 2 + 1 ELSE (k + 1) \div 2) |->
        IF 2 * i <= k THEN "ok"
        ELSE IF inside
             THEN (IF 2 * i - 1 > k THEN "queueWriteDamages"
                   ELSE "progressWriteDamages")
             ELSE "progressWriteFails"]

\* the files the stopped process leaves
FilesAfter(disk, saves, k, inside) ==
    ApplySaves(disk, SubSeq(saves, 1, Len(CrashPlan(k, inside))),
               CrashPlan(k, inside))

\* POST /api/progress/run-cron, the process stops during the pass, between
\* two writeFileSync calls or inside one, and a new StorageService is
\* constructed
RunCronCrashes ==
    LET res == ProcessCronJob(queue, progress, now)
    IN  \E k \in 0..(2 * Len(res.saves) - 1), inside \in BOOLEAN :
            LET d == FilesAfter(Disk, res.saves, k, inside)
                l == LoadFromDisk(d.queueFile, d.progressFile)
            IN  /\ inside \/ k >= 1
                /\ inside => faults < MaxFaults
                /\ queueFile' = d.queueFile
                /\ progressFile' = d.progressFile
                /\ queue' = l.queue
                /\ progress' = l.progress
                /\ ret' = [op |-> "constructor", args |-> d,
                           value |-> [error |-> l.error,
                                      stopped |-> IF inside THEN "inside"
                                                  ELSE "between"],
                           before |-> Before]
                /\ merges' = 0
                /\ faults' = IF inside THEN faults + 1 ELSE faults
                /\ UNCHANGED <<now, direct>>
                /\ UNCHANGED page

NextCrash ==
    \/ Enqueue
    \/ RunCron
    \/ RunCronCrashes
    \/ Reset
    \/ Restart
    \/ Tick

SpecCrash == Init /\ [][NextCrash]_vars

----------------------------------------------------------------------------
(* The page of frontend/src/App.tsx: its interval timer and the requests   *)
(* it sends                                                                *)

\* startProgressTracking that does not clear the interval it replaces
StartProgressTrackingKeeps(ref, active, id) ==
    [intervalRef |-> id, timers |-> active \cup {id}]

\* startProgressTracking: clearInterval of the interval in the ref, if any,
\* then setInterval, which returns the id of the new interval
StartProgressTracking(ref, active, id) ==
    LET cleared == IF ref # 0 THEN active \ {ref} ELSE active
    IN  [intervalRef |-> id, timers |-> cleared \cup {id}]

\* stopProgressTracking
StopProgressTracking(ref, active) ==
    IF ref # 0
    THEN [intervalRef |-> 0, timers |-> active \ {ref}]
    ELSE [intervalRef |-> ref, timers |-> active]

\* enqueueProgress: returns at once without a video, else sends the sample
EnqueueProgress(out) ==
    IF ~video THEN out ELSE Append(out, "POST /api/progress/queue")

\* runCronJob
RunCronJob(out) == Append(out, "POST /api/progress/run-cron")

\* the player is rendered once loading is over and a video is there
PlayerShown == mounted /\ ~loading /\ video

\* loadData: GET /api/video answered, setVideo
LoadVideo ==
    /\ mounted /\ loading /\ ~video
    /\ video' = TRUE
    /\ UNCHANGED <<mounted, loading, isPlaying, intervalRef, timers, nextTimer,
                   outbox, event>>
    /\ UNCHANGED store

\* loadData: GET /api/progress/furthest answered, or a fetch failed; finally
\* setLoading(false)
LoadDone ==
    /\ mounted /\ loading
    /\ loading' = FALSE
    /\ UNCHANGED <<mounted, video, isPlaying, intervalRef, timers, nextTimer,
                   outbox, event>>
    /\ UNCHANGED store

\* onPlay
HandlePlay ==
    LET t == StartProgressTracking(intervalRef, timers, nextTimer + 1)
    IN  /\ PlayerShown
        /\ nextTimer < MaxTimers
        /\ isPlaying' = TRUE
        /\ intervalRef' = t.intervalRef
        /\ timers' = t.timers
        /\ nextTimer' = nextTimer + 1
        /\ event' = "play"
        /\ UNCHANGED <<mounted, video, loading, outbox>>
        /\ UNCHANGED store

\* onPause
HandlePause ==
    LET t == StopProgressTracking(intervalRef, timers)
    IN  /\ PlayerShown
        /\ Len(outbox) < MaxOutbox
        /\ isPlaying' = FALSE
        /\ intervalRef' = t.intervalRef
        /\ timers' = t.timers
        /\ outbox' = EnqueueProgress(outbox)
        /\ event' = "pause"
        /\ UNCHANGED <<mounted, video, loading, nextTimer>>
        /\ UNCHANGED store

\* onEnded
HandleEnded ==
    LET t == StopProgressTracking(intervalRef, timers)
    IN  /\ PlayerShown
        /\ Len(outbox) < MaxOutbox
        /\ isPlaying' = FALSE
        /\ intervalRef' = t.intervalRef
        /\ timers' = t.timers
        /\ outbox' = RunCronJob(outbox)
        /\ event' = "ended"
        /\ UNCHANGED <<mounted, video, loading, nextTimer>>
        /\ UNCHANGED store

\* an active interval fires: its callback calls enqueueProgress
IntervalFires ==
    /\ timers # {}
    /\ Len(outbox) < MaxOutbox
    /\ outbox' = EnqueueProgress(outbox)
    /\ UNCHANGED <<mounted, video, loading, isPlaying, intervalRef, timers,
                   nextTimer, event>>
    /\ UNCHANGED store

\* the beforeunload listener
HandleBeforeUnload ==
    /\ mounted
    /\ Len(outbox) < MaxOutbox
    /\ outbox' = RunCronJob(outbox)
    /\ UNCHANGED <<mounted, video, loading, isPlaying, intervalRef, timers,
                   nextTimer, event>>
    /\ UNCHANGED store

\* the component unmounts: the cleanup of the effect removes the listener
\* and calls stopProgressTracking
Unmount ==
    LET t == StopProgressTracking(intervalRef, timers)
    IN  /\ mounted
        /\ mounted' = FALSE
        /\ intervalRef' = t.intervalRef
        /\ timers' = t.timers
        /\ event' = "unmount"
        /\ UNCHANGED <<video, loading, isPlaying, nextTimer, outbox>>
        /\ UNCHANGED store

\* the component is mounted again: its states and its ref start afresh,
\* the intervals of the window are what they were
Mount ==
    /\ ~mounted
    /\ mounted' = TRUE
    /\ video' = FALSE
    /\ loading' = TRUE
    /\ isPlaying' = FALSE
    /\ intervalRef' = 0
    /\ UNCHANGED <<timers, nextTimer, outbox, event>>
    /\ UNCHANGED store

\* the server answers one of the requests, in whatever order
Respond ==
    /\ \E i \in 1..Len(outbox) :
          outbox' = SubSeq(outbox, 1, i - 1) \o SubSeq(outbox, i + 1, Len(outbox))
    /\ UNCHANGED <<mounted, video, loading, isPlaying, intervalRef, timers,
                   nextTimer, event>>
    /\ UNCHANGED store

NextPage ==
    \/ LoadVideo
    \/ LoadDone
    \/ HandlePlay
    \/ HandlePause
    \/ HandleEnded
    \/ IntervalFires
    \/ HandleBeforeUnload
    \/ Unmount
    \/ Mount
    \/ Respond

SpecPage == Init /\ [][NextPage]_vars

----------------------------------------------------------------------------
(* Vocabulary of the properties *)

RECURSIVE Flatten(_)
Flatten(m) == IF m = <<>> THEN <<>> ELSE Head(m)[2] \o Flatten(Tail(m))

\* the pending samples that were enqueued for the pair pr, in whatever bucket
PendingFor(q, pr) ==
    SelectSeq(Flatten(q), LAMBDA it : it.userId = pr[1] /\ it.videoId = pr[2])

Larger(a, b) == IF a > b THEN a ELSE b

\* the largest progressSeconds of a non-empty sequence of samples
Largest(items) ==
    CHOOSE m \in {items[i].progressSeconds : i \in 1..Len(items)} :
        \A i \in 1..Len(items) : items[i].progressSeconds <= m

\* key and furthestSeconds of every committed record, in table order
SecondsOf(p) == [i \in 1..Len(p) |-> <<p[i][1], p[i][2].furthestSeconds>>]

Orderings(n) ==
    {f \in [1..n -> 1..n] : \A i, j \in 1..n : i # j => f[i] # f[j]}

\* the queue with the samples of its i-th bucket in the order f
PermuteBucket(q, i, f) ==
    [q EXCEPT ![i] = <<q[i][1], [j \in 1..Len(q[i][2]) |-> q[i][2][f[j]]]>>]

AfterMerge == ret.op = "processCronJob"

\* what a call that throws would hand to its caller
Thrown(name) == [thrown |-> name]

----------------------------------------------------------------------------
(* The claims *)

\* C1: after processCronJob, getProgress(userId, videoId) returns, for every
\* pair that had pending samples, a record whose furthestSeconds is the
\* maximum of the value committed before and the pair's largest pending sample.
C1_MaxSelection ==
    AfterMerge =>
        \A pr \in Pairs :
            LET items == PendingFor(ret.before.queue, pr)
                prior == GetProgress(ret.before.progress, pr[1], pr[2])
                rec   == GetProgress(progress, pr[1], pr[2])
            IN  items # <<>> =>
                    /\ rec # NULL
                    /\ rec.furthestSeconds =
                           IF prior = NULL THEN Largest(items)
                           ELSE Larger(prior.furthestSeconds, Largest(items))

\* C2: no call of the store replaces the furthestSeconds committed under a
\* key by a smaller value.
C2_Monotonic ==
    ret.before # NULL =>
        \A i \in 1..Len(ret.before.progress) :
            LET key == ret.before.progress[i][1]
            IN  MapHas(progress, key) =>
                    MapGet(progress, key).furthestSeconds
                        >= ret.before.progress[i][2].furthestSeconds

\* C3: a processCronJob call that follows another one with no addToQueue in
\* between reports updated = 0 and leaves every committed record (its
\* furthestSeconds and its updatedAt) as it was.
C3_Idempotent ==
    (AfterMerge /\ merges = 2) =>
        /\ ret.value.updated = 0
        /\ progress = ret.before.progress

C3_Witness ==
    /\ AfterMerge
    /\ merges = 2
    /\ \E i \in 1..Len(progress) : progress[i][2].updatedAt < now

\* C4: processCronJob never changes what getProgress returns for a pair that
\* had no pending sample of its own.
C4_Isolation ==
    AfterMerge =>
        \A pr \in Pairs :
            PendingFor(ret.before.queue, pr) = <<>> =>
                GetProgress(progress, pr[1], pr[2])
                    = GetProgress(ret.before.progress, pr[1], pr[2])

\* C5: the bucket returned for a pair holds only samples enqueued for that
\* pair, and the record returned for a pair is a record of that pair.
C5_Injective ==
    \A pr \in Pairs :
        /\ \A i \in 1..Len(GetQueueItems(queue, pr[1], pr[2])) :
              LET it == GetQueueItems(queue, pr[1], pr[2])[i]
              IN  it.userId = pr[1] /\ it.videoId = pr[2]
        /\ LET rec == GetProgress(progress, pr[1], pr[2])
           IN  rec # NULL => (rec.userId = pr[1] /\ rec.videoId = pr[2])

\* C6: after processCronJob no pending sample remains, for raised and for
\* unraised keys alike: getStats reports no queue item and every bucket is empty.
C6_Drained ==
    AfterMerge =>
        /\ GetStats(queue, progress).queueItems = 0
        /\ GetStats(queue, progress).queueSize = 0
        /\ \A pr \in Pairs : GetQueueItems(queue, pr[1], pr[2]) = <<>>

C6_Witness ==
    /\ AfterMerge
    /\ Len(ret.before.queue) = 2
    /\ ret.value.updated = 1
    /\ queue = <<>>

\* C7: when the largest pending sample of a pair is not above the pair's
\* committed furthestSeconds, processCronJob leaves that committed record as
\* it was and consumes the pair's pending samples.
C7_NoRaise ==
    AfterMerge =>
        \A pr \in Pairs :
            LET items == PendingFor(ret.before.queue, pr)
                prior == GetProgress(ret.before.progress, pr[1], pr[2])
            IN  (items # <<>> /\ prior # NULL
                    /\ Largest(items) <= prior.furthestSeconds) =>
                    /\ GetProgress(progress, pr[1], pr[2]) = prior
                    /\ PendingFor(queue, pr) = <<>>

\* C8: the furthestSeconds that processCronJob commits do not depend on the
\* order of the samples within a bucket: the merge of the queue with any one
\* bucket permuted commits the same values as the merge that ran.
C8_OrderIndependent ==
    AfterMerge =>
        \A i \in 1..Len(ret.before.queue) :
            \A f \in Orderings(Len(ret.before.queue[i][2])) :
                SecondsOf(ProcessCronJob(PermuteBucket(ret.before.queue, i, f),
                                         ret.before.progress, now).progress)
                    = SecondsOf(progress)

C8_Witness ==
    /\ AfterMerge
    /\ \E i \in 1..Len(ret.before.queue) :
          LET items == ret.before.queue[i][2]
          IN  /\ Len(items) = 2
              /\ items[1].progressSeconds > items[2].progressSeconds
              /\ \E k \in 1..Len(progress) :
                    /\ progress[k][2].furthestSeconds = items[1].progressSeconds
                    /\ progress[k][2].updatedAt = now

\* C9: while every saveToDisk of the last writing call completed, the two
\* files hold the two maps, loading them gives the maps back, and a restart
\* leaves both maps, hence every getProgress answer, as they were.
C9_ColdStart ==
    [][ /\ faults' = 0 =>
              /\ \/ queueFile' = Absent /\ progressFile' = Absent
                    /\ queue' = <<>> /\ progress' = <<>>
                 \/ queueFile' = Stringify(queue')
                    /\ progressFile' = Stringify(progress')
              /\ LoadFromDisk(queueFile', progressFile').queue = queue'
              /\ LoadFromDisk(queueFile', progressFile').progress = progress'
        /\ (Restart /\ faults = 0) =>
              /\ queue' = queue
              /\ progress' = progress
              /\ \A pr \in Pairs :
                    GetProgress(progress', pr[1], pr[2])
                        = GetProgress(progress, pr[1], pr[2])
      ]_vars

C9_Witness ==
    /\ ret.op = "constructor"
    /\ faults = 0
    /\ queue # <<>>
    /\ progress # <<>>

\* C10: a store constructed while queue.json or progress.json cannot be read
\* or parsed starts, and starts with an empty queue and an empty progress map.
C10_CorruptStart ==
    (/\ ret.op = "constructor"
     /\ (ret.args.queueFile = Corrupt \/ ret.args.progressFile = Corrupt)) =>
        /\ ret.value.error # "thrown"
        /\ queue = <<>>
        /\ progress = <<>>

C10_Witness ==
    /\ ret.op = "constructor"
    /\ ret.args.progressFile = Corrupt
    /\ ret.args.queueFile # Absent
    /\ ret.args.queueFile # Corrupt
    /\ ret.args.queueFile.members # <<>>
    /\ queue = <<>>

\* C11: addToQueue with a negative progressSeconds fails with a
\* ValidationError and stores nothing: the queue and the committed table are
\* as the call found them.
C11_Validation ==
    (ret.op = "addToQueue" /\ ret.args.progressSeconds < 0) =>
        /\ ret.value = Thrown("ValidationError")
        /\ queue = ret.before.queue
        /\ progress = ret.before.progress

\* C12: when the last saveToDisk of addToQueue, processCronJob or reset fails,
\* the call hands a PersistenceError to its caller, and the maps keep what
\* the call did to them.
C12_Surfaced ==
    [][ ((EnqueueWriteFails \/ RunCronWriteFails \/ ResetWriteFails)
            /\ faults' = faults + 1) =>
            /\ ret'.value = Thrown("PersistenceError")
            /\ ret'.op = "addToQueue" =>
                    FlatLength(queue') = FlatLength(queue) + 1
            /\ ret'.op \in {"processCronJob", "reset"} => queue' = <<>>
            /\ ret'.op = "reset" => progress' = <<>>
      ]_vars

\* the keys of q that hold at least one pending sample
PendingKeys(q) == {q[i][1] : i \in {j \in 1..Len(q) : Len(q[j][2]) > 0}}

\* the keys whose committed record exists in p2 and is new or above that of p1
RaisedKeys(p1, p2) ==
    {p2[i][1] : i \in {j \in 1..Len(p2) :
        \/ ~MapHas(p1, p2[j][1])
        \/ p2[j][2].furthestSeconds > MapGet(p1, p2[j][1]).furthestSeconds}}

\* C13: processCronJob returns, as processed, the number of keys that held a
\* pending sample when it started and, as updated, the number of those keys
\* whose committed record it created or raised.
C13_Counts ==
    AfterMerge =>
        /\ ret.value.processed = Cardinality(PendingKeys(ret.before.queue))
        /\ ret.value.updated =
               Cardinality(PendingKeys(ret.before.queue)
                              \cap RaisedKeys(ret.before.progress, progress))

\* the sample at position j of the bucket of key is still there in q
StillPending(q, key, j, sample) ==
    /\ MapHas(q, key)
    /\ Len(MapGet(q, key)) >= j
    /\ MapGet(q, key)[j] = sample

\* the record that processCronJob compares the bucket of key with holds, in
\* p, a furthestSeconds that is not below the sample
Folded(p, key, sample) ==
    LET rec == GetProgress(p, Split(key)[1], Split(key)[2])
    IN  rec # NULL /\ rec.furthestSeconds >= sample.progressSeconds

\* C14: no call loses a pending sample: after every step each sample that was
\* pending is still pending, or the step was a processCronJob call whose
\* maximum for the sample's bucket took the sample in; nothing but a
\* processCronJob call removes a sample from the queue.
C14_NoSampleLost ==
    [][ \A i \in 1..Len(queue) : \A j \in 1..Len(queue[i][2]) :
            \/ StillPending(queue', queue[i][1], j, queue[i][2][j])
            \/ /\ ret'.op = "processCronJob"
               /\ ret'.before = Before
               /\ Folded(progress', queue[i][1], queue[i][2][j])
      ]_vars

\* the committed record stored under the key of a pair, NULL when there is none
CommittedRecord(p, pair) ==
    LET found == {i \in 1..Len(p) : p[i][1] = KeyOf(pair.userId, pair.videoId)}
    IN  IF found = {} THEN NULL ELSE p[CHOOSE i \in found : TRUE][2]

\* C15: getProgress, as GET /api/progress/furthest calls it, changes neither
\* map and neither file, and returns what the committed table holds under
\* the key, whatever is pending in the queue.
C15_PureRead ==
    [][ DoGetProgress =>
            /\ UNCHANGED <<queue, progress, queueFile, progressFile>>
            /\ ret'.value.record = CommittedRecord(progress, ret'.args)
      ]_vars

C15_Witness ==
    /\ ret.op = "getProgress"
    /\ ret.value.record = NULL
    /\ progress # <<>>
    /\ GetQueueItems(queue, ret.args.userId, ret.args.videoId) # <<>>

\* C16: a query for a pair without a committed record raises no error:
\* getProgress returns null and the response carries furthestSeconds 0 and
\* lastUpdated null.
C16_AbsentIsZero ==
    (ret.op = "getProgress" /\ CommittedRecord(progress, ret.args) = NULL) =>
        /\ ret.value.record = NULL
        /\ ret.value.response = [videoId         |-> ret.args.videoId,
                                 userId          |-> ret.args.userId,
                                 furthestSeconds |-> 0,
                                 lastUpdated     |-> NULL]

C16_Witness ==
    /\ ret.op = "getProgress"
    /\ ret.value.response.furthestSeconds = 0
    /\ ret.value.response.lastUpdated = NULL
    /\ \E i \in 1..Len(progress) : progress[i][2].videoId = ret.args.videoId

\* C17: whatever play, pause, ended and unmount events the page has seen, at
\* most one interval is active, it is the one intervalRef holds, and none is
\* active from a pause, ended or unmount event until the next play event.
C17_OneTimer ==
    /\ Cardinality(timers) <= 1
    /\ timers \subseteq {intervalRef}
    /\ event # "play" => timers = {}

C17_Witness ==
    /\ event = "play"
    /\ isPlaying
    /\ nextTimer = 3
    /\ timers = {3}
    /\ outbox # <<>>

\* C18: every committed record that processCronJob created or raised is
\* stored under the key of a bucket that was pending, that key is the key of
\* the record's own userId and videoId, and the samples of that bucket carry
\* the same userId and videoId.
C18_SameKey ==
    AfterMerge =>
        \A k \in 1..Len(progress) :
            LET key == progress[k][1]
                rec == progress[k][2]
            IN  key \in RaisedKeys(ret.before.progress, progress) =>
                    /\ key = KeyOf(rec.userId, rec.videoId)
                    /\ key \in PendingKeys(ret.before.queue)
                    /\ \A j \in 1..Len(MapGet(ret.before.queue, key)) :
                          LET it == MapGet(ret.before.queue, key)[j]
                          IN  it.userId = rec.userId /\ it.videoId = rec.videoId

\* C19: addToQueue with a progressSeconds that is not negative appends one
\* sample to the end of the bucket of `${userId}-${videoId}`, returns that
\* sample with the userId, videoId and progressSeconds it was given, and
\* leaves the earlier samples of the bucket, every other bucket and the
\* committed table as they were.
C19_AppendsOne ==
    (ret.op = "addToQueue" /\ ret.args.progressSeconds >= 0) =>
        LET key == KeyOf(ret.args.userId, ret.args.videoId)
            old == GetQueueItems(ret.before.queue, ret.args.userId, ret.args.videoId)
        IN  /\ GetQueueItems(queue, ret.args.userId, ret.args.videoId)
                  = Append(old, ret.value)
            /\ ret.value.userId = ret.args.userId
            /\ ret.value.videoId = ret.args.videoId
            /\ ret.value.progressSeconds = ret.args.progressSeconds
            /\ \A i \in 1..Len(ret.before.queue) :
                  ret.before.queue[i][1] # key =>
                      /\ MapHas(queue, ret.before.queue[i][1])
                      /\ MapGet(queue, ret.before.queue[i][1])
                            = ret.before.queue[i][2]
            /\ \A i \in 1..Len(queue) :
                  queue[i][1] # key => MapHas(ret.before.queue, queue[i][1])
            /\ FlatLength(queue) = FlatLength(ret.before.queue) + 1
            /\ progress = ret.before.progress

C19_Witness ==
    /\ ret.op = "addToQueue"
    /\ ret.before.progress # <<>>
    /\ GetQueueItems(ret.before.queue, ret.args.userId, ret.args.videoId) # <<>>
    /\ ret.value.progressSeconds
          < GetQueueItems(queue, ret.args.userId, ret.args.videoId)[1].progressSeconds

\* the queue after the sample is delivered n more times
RECURSIVE Redeliver(_, _, _)
Redeliver(q, sample, n) ==
    IF n = 0 THEN q
    ELSE Redeliver(AddToQueue(q, <<>>, sample, sample.createdAt, sample.id[2]).queue,
                   sample, n - 1)

\* C20: the furthestSeconds that processCronJob commits are those it would
\* commit had any one of the pending samples been enqueued once or twice
\* more before the call.
C20_Duplicates ==
    AfterMerge =>
        \A i \in 1..Len(ret.before.queue) :
            \A j \in 1..Len(ret.before.queue[i][2]) :
                \A n \in 1..2 :
                    SecondsOf(ProcessCronJob(
                                  Redeliver(ret.before.queue,
                                            ret.before.queue[i][2][j], n),
                                  ret.before.progress, now).progress)
                        = SecondsOf(progress)

C20_Witness ==
    /\ AfterMerge
    /\ ret.value.updated = 1
    /\ \E i \in 1..Len(ret.before.queue) :
          LET items == ret.before.queue[i][2]
          IN  /\ Len(items) = 2
              /\ items[1].progressSeconds = items[2].progressSeconds
              /\ items[1].userId = items[2].userId
              /\ items[1].videoId = items[2].videoId
              /\ \E k \in 1..Len(progress) :
                    /\ progress[k][2].furthestSeconds = items[1].progressSeconds
                    /\ ~MapHas(ret.before.progress, progress[k][1])

\* key and furthestSeconds of every committed record, whatever the table order
FurthestOf(p) == {SecondsOf(p)[i] : i \in 1..Len(p)}

\* the store was constructed after the process stopped inside a pass that
\* found the maps ret.before
AfterCrash == ret.op = "constructor" /\ ret.before # NULL

\* the process stopped between two writeFileSync calls, and no write was cut
\* short since both files were last written in full
StoppedBetween == AfterCrash /\ ret.value.stopped = "between" /\ faults = 0

\* C21: when the process stops between two file writes of processCronJob,
\* every write so far being whole or not begun, and the store is constructed
\* again from the files, the queue it loads is the full one or the cleared one,
\* the table it loads is already the final one whenever the queue is the
\* cleared one, and a processCronJob call on what it loads commits, for every
\* key, the furthestSeconds that the pass would have committed had it run to
\* its end.
C21_CrashInMerge ==
    StoppedBetween =>
        LET whole == ProcessCronJob(ret.before.queue, ret.before.progress, now)
            again == ProcessCronJob(queue, progress, now)
        IN  /\ queue \in {ret.before.queue, <<>>}
            /\ queue = <<>> => FurthestOf(progress) = FurthestOf(whole.progress)
            /\ FurthestOf(again.progress) = FurthestOf(whole.progress)

C21_Witness ==
    /\ StoppedBetween
    /\ ret.value.error = "none"
    /\ queue # <<>>
    /\ progress # ret.before.progress
    /\ FurthestOf(progress)
          # FurthestOf(ProcessCronJob(ret.before.queue, ret.before.progress,
                                      now).progress)

\* what a file holds, for a file that can be read
Held(file) == IF file = Absent THEN <<>> ELSE ParseMap(file)

\* C22: the constructor ends in one of two ways: queue.json or progress.json
\* could not be read or parsed, the error is logged and both maps are empty,
\* the queue too when its file had been loaded before progress.json failed;
\* or nothing failed and each map holds what its file held.
C22_AllOrNothing ==
    ret.op = "constructor" =>
        IF ret.args.queueFile = Corrupt \/ ret.args.progressFile = Corrupt
        THEN /\ ret.value.error = "logged"
             /\ queue = <<>>
             /\ progress = <<>>
        ELSE /\ ret.value.error = "none"
             /\ queue = Held(ret.args.queueFile)
             /\ progress = Held(ret.args.progressFile)

C22_Witness ==
    /\ ret.op = "constructor"
    /\ ret.value.error = "logged"
    /\ ret.args.progressFile = Corrupt
    /\ ret.args.queueFile \notin {Absent, Corrupt}
    /\ Held(ret.args.queueFile) # <<>>
    /\ queue = <<>>
    /\ progress = <<>>

====
